---- MODULE Spec2Model ----
(***************************************************************************)
(* universal_file_converter (app.py): dispatch on the file extension and   *)
(* recursive expansion of zip archives, over a model of the working        *)
(* directory.                                                              *)
(*                                                                         *)
(* A path and a file name are sequences of one-character strings, so that  *)
(* Path(...).suffix.lower() is computed and not assumed.  A text is a      *)
(* sequence of pieces (strings); concatenating texts is \o.                *)
(***************************************************************************)
EXTENDS Integers, Sequences, FiniteSets, TLC

VARIABLES
    fs,       \* the disk: path (relative to the working directory) -> [data, by]
    stack,    \* the active calls of universal_file_converter, outermost first
    input,    \* the uploaded file's name, as upload_file returns it
    calls,    \* the results of the top-level calls made so far
    before,   \* fs as it was when the current (or last) top-level call began
    nextId,   \* identities given to calls within one top-level call
    ret       \* the call that returned in the last step (NoReturn otherwise)

vars == <<fs, stack, input, calls, before, nextId, ret>>

-----------------------------------------------------------------------------
(* Bounds *)

\* Total number of entries in an uploaded archive, nested ones included.
MaxMembers == 3

\* Number of top-level conversions of the uploaded file in one run.
MaxCalls == 2

-----------------------------------------------------------------------------
(* Sequences *)

RECURSIVE Flatten(_)
Flatten(ss) == IF ss = <<>> THEN <<>> ELSE Head(ss) \o Flatten(Tail(ss))

\* sep.join(items), items a sequence of texts
RECURSIVE Join(_, _)
Join(sep, items) ==
    IF items = <<>> THEN <<>>
    ELSE IF Len(items) = 1 THEN items[1]
    ELSE items[1] \o sep \o Join(sep, Tail(items))

\* Largest index of c in s, 0 when absent: str.rfind, one-based
RECURSIVE RFind(_, _)
RFind(s, c) ==
    IF s = <<>> THEN 0
    ELSE IF s[Len(s)] = c THEN Len(s)
    ELSE RFind(SubSeq(s, 1, Len(s) - 1), c)

StartsWith(s, prefix) ==
    /\ Len(s) >= Len(prefix)
    /\ SubSeq(s, 1, Len(prefix)) = prefix

-----------------------------------------------------------------------------
(* Path(file_path).suffix.lower() *)

UpperCase == <<"A", "B", "C", "D", "E", "F", "G", "H", "I", "J", "K", "L", "M",
               "N", "O", "P", "Q", "R", "S", "T", "U", "V", "W", "X", "Y", "Z">>
LowerCase == <<"a", "b", "c", "d", "e", "f", "g", "h", "i", "j", "k", "l", "m",
               "n", "o", "p", "q", "r", "s", "t", "u", "v", "w", "x", "y", "z">>

LowerChar(c) ==
    IF \E k \in 1..26 : UpperCase[k] = c
    THEN LowerCase[CHOOSE k \in 1..26 : UpperCase[k] = c]
    ELSE c

UpperChar(c) ==
    IF \E k \in 1..26 : LowerCase[k] = c
    THEN UpperCase[CHOOSE k \in 1..26 : LowerCase[k] = c]
    ELSE c

\* A comparison that forgets .lower().
LowerKeep(s) == s

\* str.lower()
Lower(s) == [k \in 1..Len(s) |-> LowerChar(s[k])]

\* Trailing separators are dropped when the path is parsed.
RECURSIVE StripSlashes(_)
StripSlashes(p) ==
    IF Len(p) > 1 /\ p[Len(p)] = "/" THEN StripSlashes(SubSeq(p, 1, Len(p) - 1)) ELSE p

\* PurePath.name: the final path segment
PathName(p) ==
    LET q == StripSlashes(p)
    IN  SubSeq(q, RFind(q, "/") + 1, Len(q))

\* A suffix taken from the whole path instead of its final segment.
SuffixOfPath(p) ==
    LET i == RFind(p, ".")
    IN  IF 1 < i /\ i < Len(p) THEN SubSeq(p, i, Len(p)) ELSE <<>>

\* PurePath.suffix: from the last dot of the name, unless the dot is the
\* name's first or last character
Suffix(p) ==
    LET name == PathName(p)
        i == RFind(name, ".")
    IN  IF 1 < i /\ i < Len(name) THEN SubSeq(name, i, Len(name)) ELSE <<>>

FileExtension(file_path) == Lower(Suffix(file_path))

ExtDocx == <<".", "d", "o", "c", "x">>
ExtPptx == <<".", "p", "p", "t", "x">>
ExtOdt  == <<".", "o", "d", "t">>
ExtRtf  == <<".", "r", "t", "f">>
ExtXlsx == <<".", "x", "l", "s", "x">>
ExtHtml == <<".", "h", "t", "m", "l">>
ExtHtm  == <<".", "h", "t", "m">>
ExtZip  == <<".", "z", "i", "p">>
ExtPdf  == <<".", "p", "d", "f">>

\* The if/elif chain on file_extension
Strategy(file_extension) ==
    IF file_extension \in {ExtDocx, ExtPptx, ExtOdt, ExtRtf} THEN "document"
    ELSE IF file_extension \in {ExtXlsx} THEN "spreadsheet"
    ELSE IF file_extension \in {ExtHtml, ExtHtm} THEN "markup"
    ELSE IF file_extension = ExtZip THEN "archive"
    ELSE IF file_extension = ExtPdf THEN "unsupported"
    ELSE "plaintext"

-----------------------------------------------------------------------------
(* File contents *)

Content(kind, text, members, sheets) ==
    [kind |-> kind, text |-> text, members |-> members, sheets |-> sheets]

TextFile(t) == Content("text", t, <<>>, <<>>)       \* UTF-8 text
BinFile == Content("bin", <<>>, <<>>, <<>>)         \* bytes that are not UTF-8
DocFile(md) == Content("doc", md, <<>>, <<>>)       \* a document pandoc reads
XlsxFile(sh) == Content("xlsx", <<>>, <<>>, sh)     \* a workbook
ZipFile(ms) == Content("zip", <<>>, ms, <<>>)       \* a zip archive
EmptyFile == TextFile(<<>>)

\* A ZipInfo with the member's bytes; fault is what extracting it meets.
Member(filename, is_dir, data, fault) ==
    [filename |-> filename, is_dir |-> is_dir, data |-> data, fault |-> fault]

-----------------------------------------------------------------------------
(* Messages *)

SuccessMessage(file_path) ==
    <<"Successfully converted ">> \o file_path \o <<" to Markdown.">>

PdfMessage ==
    <<"PDF conversion requires additional, complex packages. This function does not support it.">>

ErrorMessage(e) == <<"An error occurred during conversion: ">> \o e

ZipHeader(filename) == <<"\n\n-- ZIP Archive: ">> \o filename \o <<" --\n">>

SheetHeader(sheet_name) == <<"\n\n# Excel Sheet: ">> \o sheet_name \o <<"\n">>

\* str(e) of the exceptions met
NoSuchFile(path) == <<"[Errno 2] No such file or directory: '">> \o path \o <<"'">>
NotUtf8 == <<"'utf-8' codec can't decode byte 0xff in position 0: invalid start byte">>
NotAZip == <<"File is not a zip file">>
BadCrc(filename) == <<"Bad CRC-32 for file '">> \o filename \o <<"'">>
Encrypted(filename) ==
    <<"File '">> \o filename \o <<"' is encrypted, password required for extraction">>
BadMagic == <<"Bad magic number for file header">>
EndOfFile == <<>>
PandocFailed == <<"Pandoc died with exitcode 1 during conversion">>

-----------------------------------------------------------------------------
(* The disk *)

\* zip_ref.extract(member) extracts into the working directory and returns
\* the absolute path of the file it wrote.
Cwd == <<"/", "w", "/">>

Resolve(path) ==
    IF StartsWith(path, Cwd) THEN SubSeq(path, Len(Cwd) + 1, Len(path)) ELSE path

Exists(disk, path) == Resolve(path) \in DOMAIN disk

DataAt(disk, path) == disk[Resolve(path)].data

WriteFile(disk, key, data, uid) ==
    [p \in DOMAIN disk \cup {key} |->
        IF p = key THEN [data |-> data, by |-> uid] ELSE disk[p]]

\* A removal that leaves the file where it is.
RemoveNothing(disk, key) == disk

RemoveFile(disk, key) == [p \in DOMAIN disk \ {key} |-> disk[p]]

-----------------------------------------------------------------------------
(* Results and exceptions *)

Exc(stage, desc) == [stage |-> stage, desc |-> desc]

Value(v) == [ok |-> TRUE, val |-> v, exc |-> Exc("none", <<>>)]
Raise(stage, desc) == [ok |-> FALSE, val |-> <<>>, exc |-> Exc(stage, desc)]

\* return output_text, message (line 97) with no exception caught
Returned(output_text, message) ==
    [text |-> output_text, message |-> message, raised |-> FALSE,
     stage |-> "none", desc |-> <<>>, escaped |-> FALSE]

\* A handler that lets the exception through to the caller.
CaughtReraise(output_text, e) ==
    [text |-> <<>>, message |-> ErrorMessage(e.desc), raised |-> TRUE,
     stage |-> e.stage, desc |-> e.desc, escaped |-> TRUE]

\* A handler that forgets to reset output_text.
CaughtKeepText(output_text, e) ==
    [text |-> output_text, message |-> ErrorMessage(e.desc), raised |-> TRUE,
     stage |-> e.stage, desc |-> e.desc, escaped |-> FALSE]

\* except Exception as e (lines 93-95), then the return of line 97
Caught(output_text, e) ==
    [text |-> <<>>, message |-> ErrorMessage(e.desc), raised |-> TRUE,
     stage |-> e.stage, desc |-> e.desc, escaped |-> FALSE]

-----------------------------------------------------------------------------
(* The strategies that read one file *)

\* Text mode with newline=None: "\r\n" and "\r" are read as "\n".
RECURSIVE UniversalNewlines(_)
UniversalNewlines(t) ==
    IF t = <<>> THEN <<>>
    ELSE IF t[1] = "\r" /\ Len(t) >= 2 /\ t[2] = "\n"
         THEN <<"\n">> \o UniversalNewlines(SubSeq(t, 3, Len(t)))
    ELSE IF t[1] = "\r" THEN <<"\n">> \o UniversalNewlines(Tail(t))
    ELSE <<t[1]>> \o UniversalNewlines(Tail(t))

\* with open(file_path, 'r', encoding='utf-8') as f: f.read()
ReadUtf8(disk, file_path) ==
    IF ~Exists(disk, file_path) THEN Raise("read", NoSuchFile(file_path))
    ELSE IF DataAt(disk, file_path).kind # "text" THEN Raise("read", NotUtf8)
    ELSE Value(UniversalNewlines(DataAt(disk, file_path).text))

\* pypandoc.convert_file(file_path, to='markdown_strict')
ConvertFile(disk, file_path) ==
    IF Exists(disk, file_path) /\ DataAt(disk, file_path).kind = "doc"
    THEN Value(DataAt(disk, file_path).text)
    ELSE Raise("convert", PandocFailed)

\* str(cell.value) if cell.value is not None else ''
CellText(cell) == IF cell.is_none THEN <<>> ELSE <<cell.str>>

RowText(row) == Join(<<" | ">>, [k \in 1..Len(row) |-> CellText(row[k])]) \o <<"\n">>

SheetText(sheet) ==
    SheetHeader(sheet.name)
        \o Flatten([k \in 1..Len(sheet.rows) |-> RowText(sheet.rows[k])])

\* load_workbook(file_path) and the loops over its sheets and rows
ConvertWorkbook(disk, file_path) ==
    IF ~Exists(disk, file_path) THEN Raise("convert", NoSuchFile(file_path))
    ELSE IF DataAt(disk, file_path).kind # "xlsx" THEN Raise("convert", NotAZip)
    ELSE LET sheets == DataAt(disk, file_path).sheets
         IN  Value(Flatten([k \in 1..Len(sheets) |-> SheetText(sheets[k])]))

\* The tags of the markup alphabet; any other piece is a character of text.
Tags == {"<p>", "</p>"}

\* BeautifulSoup(html_content, 'html.parser').get_text()
GetText(html_content) == SelectSeq(html_content, LAMBDA c : c \notin Tags)

\* str.splitlines()
RECURSIVE SplitFrom(_, _)
SplitFrom(t, line) ==
    IF t = <<>> THEN (IF line = <<>> THEN <<>> ELSE <<line>>)
    ELSE IF t[1] = "\r" /\ Len(t) >= 2 /\ t[2] = "\n"
         THEN <<line>> \o SplitFrom(SubSeq(t, 3, Len(t)), <<>>)
    ELSE IF t[1] \in {"\n", "\r"} THEN <<line>> \o SplitFrom(Tail(t), <<>>)
    ELSE SplitFrom(Tail(t), Append(line, t[1]))

SplitLines(t) == SplitFrom(t, <<>>)

\* os.linesep
LineSep == <<"\n">>

ConvertMarkup(disk, file_path) ==
    LET r == ReadUtf8(disk, file_path)
    IN  IF ~r.ok THEN r
        ELSE Value(Join(LineSep,
                 SelectSeq(SplitLines(GetText(r.val)), LAMBDA s : s # <<>>)))

\* The body of the try for every strategy but the archive's, and the return.
ConvertOne(disk, file_path, strategy) ==
    LET r == CASE strategy = "document" -> ConvertFile(disk, file_path)
               [] strategy = "spreadsheet" -> ConvertWorkbook(disk, file_path)
               [] strategy = "markup" -> ConvertMarkup(disk, file_path)
               [] strategy = "unsupported" -> Value(<<>>)
               [] OTHER -> ReadUtf8(disk, file_path)
    IN  IF ~r.ok THEN Caught(<<>>, r.exc)
        ELSE IF strategy = "unsupported" THEN Returned(<<>>, PdfMessage)
        ELSE Returned(r.val, SuccessMessage(file_path))

-----------------------------------------------------------------------------
(* The archive strategy, one step of lines 77-84 at a time *)

\* One call of universal_file_converter: its arguments and locals.
\*   pc: "start" (line 45), "loop" (line 78, archive open), "wait" (line 81,
\*   the nested call is running), "remove" (line 84)
Frame(file_path, uid) ==
    [file_path |-> file_path, uid |-> uid, pc |-> "start", output_text |-> <<>>,
     members |-> <<>>, i |-> 0, extracted_path |-> <<>>, clobbered |-> FALSE]

NoReturn == [depth |-> 0, frame |-> Frame(<<>>, 0), result |-> Returned(<<>>, <<>>)]

Top == stack[Len(stack)]

StrategyOf(frame) == Strategy(FileExtension(frame.file_path))

\* zipfile.ZipFile(file_path, 'r') and zip_ref.infolist()
OpenArchive(disk, file_path) ==
    IF ~Exists(disk, file_path) THEN Raise("open", NoSuchFile(file_path))
    ELSE IF DataAt(disk, file_path).kind # "zip" THEN Raise("open", NotAZip)
    ELSE Value(DataAt(disk, file_path).members)

\* What zip_ref.extract(member) can do.  "ok": the file is written.  "crc":
\* the file is written and the CRC check then fails.  "encrypted": refused
\* before the target is opened.  When the target is the archive being read,
\* opening it for writing truncates the file under the reader, and the copy
\* may run past the end of the file ("eof", target left truncated); once the
\* archive's file has been truncated, a later member's header may no longer
\* be found ("magic", target not opened).  Which of these happens depends on
\* what the reader had buffered.
ExtractOutcomes(frame, member) ==
    (IF member.fault = "none" THEN {"ok"} ELSE {member.fault})
        \cup (IF frame.clobbered \/ Resolve(frame.file_path) = member.filename
              THEN {"eof"} ELSE {})
        \cup (IF frame.clobbered THEN {"magic"} ELSE {})

ExtractError(member, outcome) ==
    CASE outcome = "crc" -> BadCrc(member.filename)
      [] outcome = "encrypted" -> Encrypted(member.filename)
      [] outcome = "magic" -> BadMagic
      [] OTHER -> EndOfFile

\* open(targetpath, "wb") truncates whatever is at the target, also an archive
\* an active call is reading.
Clobber(stk, key) ==
    [k \in 1..Len(stk) |->
        IF stk[k].pc # "start" /\ Resolve(stk[k].file_path) = key
        THEN [stk[k] EXCEPT !.clobbered = TRUE] ELSE stk[k]]

\* Lines 81-83: the nested message is dropped, header and text are appended.
Resume(parent, result) ==
    [parent EXCEPT
        !.output_text = @ \o ZipHeader(parent.members[parent.i].filename)
                          \o result.text,
        !.pc = "remove"]

\* An exception that leaves a call reaches the try of the call that made it.
RECURSIVE Unwind(_, _)
Unwind(stk, r) ==
    IF Len(stk) = 1 \/ ~r.escaped THEN [stack |-> stk, result |-> r]
    ELSE Unwind(SubSeq(stk, 1, Len(stk) - 1),
                Caught(stk[Len(stk) - 1].output_text, Exc("nested", r.desc)))

\* The innermost call of stk returns r (line 97).
Return(stk, r) ==
    LET u == Unwind(stk, r)
        n == Len(u.stack)
    IN  /\ ret' = [depth |-> n, frame |-> u.stack[n], result |-> u.result]
        /\ IF n = 1
           THEN /\ stack' = <<>>
                /\ calls' = Append(calls, u.result)
           ELSE /\ stack' = SubSeq(u.stack, 1, n - 2)
                               \o <<Resume(u.stack[n - 1], u.result)>>
                /\ UNCHANGED calls

SetTop(stk, frame) == [stk EXCEPT ![Len(stk)] = frame]

-----------------------------------------------------------------------------
(* Actions *)

\* The main block: converted_text, status_message = universal_file_converter(...)
Call ==
    /\ stack = <<>>
    /\ Len(calls) < MaxCalls
    /\ stack' = <<Frame(input, 1)>>
    /\ nextId' = 2
    /\ fs' = [p \in DOMAIN fs |-> [fs[p] EXCEPT !.by = 0]]
    /\ before' = [p \in DOMAIN fs |-> fs[p].data]
    /\ ret' = NoReturn
    /\ UNCHANGED <<input, calls>>

\* Every strategy but the archive's runs to its return.
Convert ==
    /\ stack # <<>>
    /\ Top.pc = "start"
    /\ StrategyOf(Top) # "archive"
    /\ Return(stack, ConvertOne(fs, Top.file_path, StrategyOf(Top)))
    /\ UNCHANGED <<fs, input, before, nextId>>

\* Line 77
OpenZip ==
    /\ stack # <<>>
    /\ Top.pc = "start"
    /\ StrategyOf(Top) = "archive"
    /\ LET r == OpenArchive(fs, Top.file_path)
       IN  IF r.ok
           THEN /\ stack' = SetTop(stack,
                                [Top EXCEPT !.members = r.val, !.i = 1, !.pc = "loop"])
                /\ ret' = NoReturn
                /\ UNCHANGED calls
           ELSE Return(stack, Caught(Top.output_text, r.exc))
    /\ UNCHANGED <<fs, input, before, nextId>>

\* Lines 78-79, a directory entry
SkipDir ==
    /\ stack # <<>>
    /\ Top.pc = "loop"
    /\ Top.i <= Len(Top.members)
    /\ Top.members[Top.i].is_dir
    /\ stack' = SetTop(stack, [Top EXCEPT !.i = @ + 1])
    /\ ret' = NoReturn
    /\ UNCHANGED <<fs, input, calls, before, nextId>>

\* Lines 80-81: extract the member and call the converter on what was written
Extract ==
    /\ stack # <<>>
    /\ Top.pc = "loop"
    /\ Top.i <= Len(Top.members)
    /\ ~Top.members[Top.i].is_dir
    /\ LET member == Top.members[Top.i]
           extracted_path == Cwd \o member.filename
       IN  \E outcome \in ExtractOutcomes(Top, member) :
             LET written == outcome \in {"ok", "crc", "eof"}
                 stk == IF written THEN Clobber(stack, member.filename) ELSE stack
             IN  /\ fs' = IF written
                          THEN WriteFile(fs, member.filename,
                                   IF outcome = "eof" THEN EmptyFile ELSE member.data,
                                   Top.uid)
                          ELSE fs
                 /\ IF outcome = "ok"
                    THEN /\ stack' = Append(
                                SetTop(stk, [stk[Len(stk)] EXCEPT
                                                !.extracted_path = extracted_path,
                                                !.pc = "wait"]),
                                Frame(extracted_path, nextId))
                         /\ nextId' = nextId + 1
                         /\ ret' = NoReturn
                         /\ UNCHANGED calls
                    ELSE /\ Return(stk, Caught(Top.output_text,
                                     Exc("extract", ExtractError(member, outcome))))
                         /\ UNCHANGED nextId
    /\ UNCHANGED <<input, before>>

\* Line 84
Remove ==
    /\ stack # <<>>
    /\ Top.pc = "remove"
    /\ IF Exists(fs, Top.extracted_path)
       THEN /\ fs' = RemoveFile(fs, Resolve(Top.extracted_path))
            /\ stack' = SetTop(stack, [Top EXCEPT !.i = @ + 1, !.pc = "loop"])
            /\ ret' = NoReturn
            /\ UNCHANGED calls
       ELSE /\ Return(stack, Caught(Top.output_text,
                        Exc("remove", NoSuchFile(Top.extracted_path))))
            /\ UNCHANGED fs
    /\ UNCHANGED <<input, before, nextId>>

\* The loop of line 78 is over: line 97
Finish ==
    /\ stack # <<>>
    /\ Top.pc = "loop"
    /\ Top.i > Len(Top.members)
    /\ Return(stack, Returned(Top.output_text, SuccessMessage(Top.file_path)))
    /\ UNCHANGED <<fs, input, before, nextId>>

Next == Call \/ Convert \/ OpenZip \/ SkipDir \/ Extract \/ Remove \/ Finish

-----------------------------------------------------------------------------
(* The files a run starts from *)

NoteTxt == <<"n", ".", "t", "x", "t">>
ReportPdf == <<"r", ".", "p", "d", "f">>
AZip == <<"a", ".", "z", "i", "p">>
BZip == <<"b", ".", "z", "i", "p">>
DirD == <<"d", "/">>

Hi == <<"h", "i">>
Keep == <<"k", "e", "e", "p">>
WithReturns == <<"a", "\r", "\n", "b", "\r", "c", "\n">>
Page == <<"<p>", "a", "</p>", "\n", "\n", "<p>", "b", "</p>">>
Book == <<[name |-> <<"Sheet1">>,
           rows |-> << <<[is_none |-> FALSE, str |-> "a"], [is_none |-> FALSE, str |-> "b"]>>,
                       <<[is_none |-> TRUE, str |-> ""], [is_none |-> FALSE, str |-> "1"]>> >>]>>

\* Archive members that are not archives themselves.
LeafMembers ==
    {Member(NoteTxt, FALSE, TextFile(Hi), "none"),
     Member(NoteTxt, FALSE, TextFile(Hi), "crc"),
     Member(NoteTxt, FALSE, TextFile(Hi), "encrypted"),
     Member(NoteTxt, FALSE, BinFile, "none"),
     Member(ReportPdf, FALSE, TextFile(Hi), "none"),
     Member(DirD, TRUE, EmptyFile, "none")}

\* Archive trees of exactly n entries.
RECURSIVE ForestsOf(_)
RECURSIVE TreesOf(_)
TreesOf(n) ==
    (IF n = 1 THEN LeafMembers ELSE {})
        \cup {Member(name, FALSE, ZipFile(ms), fault) :
                name \in {AZip, BZip}, ms \in ForestsOf(n - 1), fault \in {"none"}}

ForestsOf(n) ==
    IF n = 0 THEN {<<>>}
    ELSE UNION {{<<t>> \o rest : t \in TreesOf(k), rest \in ForestsOf(n - k)} : k \in 1..n}

Archives == UNION {ForestsOf(n) : n \in 0..MaxMembers}

OnDisk(data) == [data |-> data, by |-> 0]

\* a.zip is uploaded into a working directory that may already hold n.txt.
InitArchive ==
    /\ input = AZip
    /\ \E ms \in Archives, others \in SUBSET {NoteTxt} :
          fs = [p \in {AZip} \cup others |->
                  IF p = AZip THEN OnDisk(ZipFile(ms)) ELSE OnDisk(TextFile(Keep))]

Upper(s) == [k \in 1..Len(s) |-> UpperChar(s[k])]

Capital(s) == [k \in 1..Len(s) |-> IF k = 2 THEN UpperChar(s[k]) ELSE s[k]]

Extensions ==
    {ExtDocx, ExtPptx, ExtOdt, ExtRtf, ExtXlsx, ExtHtml, ExtHtm, ExtZip, ExtPdf,
     <<".", "x", "y", "z">>, <<".", "t", "x", "t">>, <<>>}

\* File names: an optional directory, a stem that may be empty or dotted, and
\* an extension in lower, upper or mixed case.
FileNames ==
    {dir \o stem \o ext :
        dir \in {<<>>, <<"d", ".", "z", "i", "p", "/">>},
        stem \in {<<>>, <<"a">>, <<"a", ".", "b">>},
        ext \in UNION {{e, Upper(e), Capital(e)} : e \in Extensions}}
    \ {<<>>, <<"d", ".", "z", "i", "p", "/">>}

FileContents ==
    {TextFile(Hi), TextFile(WithReturns), TextFile(Page), BinFile, DocFile(Hi),
     XlsxFile(Book), ZipFile(<<Member(NoteTxt, FALSE, TextFile(Hi), "none")>>)}

\* A document or workbook is itself a zip container; it is not uploaded under
\* an archive's name here.
Uploadable(name, data) ==
    data.kind \in {"doc", "xlsx"} => Strategy(FileExtension(name)) # "archive"

\* One file of any name is uploaded, or named without being there.
InitFile ==
    /\ input \in FileNames
    /\ \/ fs = [p \in {} |-> OnDisk(EmptyFile)]
       \/ \E data \in FileContents :
            /\ Uploadable(input, data)
            /\ fs = [p \in {input} |-> OnDisk(data)]

Init ==
    /\ (InitArchive \/ InitFile)
    /\ stack = <<>>
    /\ calls = <<>>
    /\ before = [p \in DOMAIN fs |-> fs[p].data]
    /\ nextId = 1
    /\ ret = NoReturn

Spec == Init /\ [][Next]_vars

-----------------------------------------------------------------------------
(* Vocabulary of the properties *)

\* A call returned in the step that led to this state.
Returning == ret.depth > 0

\* A top-level call has returned and no other has begun.
Idle == stack = <<>> /\ calls # <<>>

\* The final segment of p ends with extension e in any letter case, after a
\* non-empty stem.
HasExtension(p, e) ==
    /\ Len(p) > Len(e)
    /\ p[Len(p) - Len(e)] # "/"
    /\ \A k \in 1..Len(e) : p[Len(p) - Len(e) + k] \in {e[k], UpperChar(e[k])}

ListedExtensions ==
    {ExtDocx, ExtPptx, ExtOdt, ExtRtf, ExtXlsx, ExtHtml, ExtHtm, ExtZip, ExtPdf}

Listed(p) == \E e \in ListedExtensions : HasExtension(p, e)

\* The strategy the extension of p calls for.
StrategyFor(p) ==
    IF \E e \in {ExtDocx, ExtPptx, ExtOdt, ExtRtf} : HasExtension(p, e) THEN "document"
    ELSE IF HasExtension(p, ExtXlsx) THEN "spreadsheet"
    ELSE IF HasExtension(p, ExtHtml) \/ HasExtension(p, ExtHtm) THEN "markup"
    ELSE IF HasExtension(p, ExtZip) THEN "archive"
    ELSE IF HasExtension(p, ExtPdf) THEN "unsupported"
    ELSE "plaintext"

\* The files the call with identity uid extracted that are still on disk.
Owned(uid) == {p \in DOMAIN fs : fs[p].by = uid}

\* The pieces of part occur, in a row, in text.
Occurs(part, text) ==
    \E j \in 0..(Len(text) - Len(part)) : SubSeq(text, j + 1, j + Len(part)) = part

\* The text the conversion of one file returns when nothing else is on disk.
RECURSIVE TextOf(_, _)
TextOf(file_path, data) ==
    IF Strategy(FileExtension(file_path)) # "archive"
    THEN ConvertOne([p \in {Resolve(file_path)} |-> OnDisk(data)], file_path,
                    Strategy(FileExtension(file_path))).text
    ELSE IF data.kind # "zip" THEN <<>>
    ELSE IF \E k \in 1..Len(data.members) :
                ~data.members[k].is_dir /\ data.members[k].fault # "none"
         THEN <<>>
    ELSE Flatten([k \in 1..Len(data.members) |->
            IF data.members[k].is_dir THEN <<>>
            ELSE ZipHeader(data.members[k].filename)
                    \o TextOf(Cwd \o data.members[k].filename, data.members[k].data)])

-----------------------------------------------------------------------------
(* Properties *)

\* C1: every call returns a (text, message) pair and no exception leaves it;
\* when an exception was raised in the call, the text is empty and the message
\* is "An error occurred during conversion: " followed by its description.  A
\* call that has not returned is never stuck: its innermost call is at a
\* line that can run.
C1_FailuresAreCaught ==
    /\ stack # <<>> =>
         \/ Top.pc = "start"
         \/ Top.pc = "remove" /\ Top.extracted_path # <<>>
         \/ Top.pc = "loop" /\ Top.i \in 1..(Len(Top.members) + 1)
    /\ Returning =>
         /\ ~ret.result.escaped
         /\ ret.result.raised =>
              /\ ret.result.text = <<>>
              /\ ret.result.message
                   = <<"An error occurred during conversion: ">> \o ret.result.desc

\* A top-level archive call that had gathered text fails and returns none.
C1_Witness ==
    /\ ret.depth = 1
    /\ ret.result.raised
    /\ ret.frame.output_text # <<>>
    /\ ret.result.stage \in {"extract", "remove"}

\* C2: once the call on a .zip has returned, no file it extracted is on disk.
C2_NoExtractedFileLeft ==
    Idle => \A p \in DOMAIN fs : fs[p].by = 0

\* C3: when the call on a nested archive returns, the files that call
\* extracted are gone.
C3_NestedLevelCleaned ==
    (Returning /\ ret.depth > 1 /\ StrategyOf(ret.frame) = "archive")
        => Owned(ret.frame.uid) = {}

\* C4: two calls in sequence on the same path return the same text and the
\* same message.
C4_Idempotent ==
    Len(calls) >= 2 =>
        /\ calls[1].text = calls[2].text
        /\ calls[1].message = calls[2].message

\* C5 as stated: an archive that could be opened returns the success message.
C5_OnlyOpenFails ==
    (Returning /\ StrategyOf(ret.frame) = "archive" /\ ret.frame.pc # "start")
        => /\ ~ret.result.raised
           /\ ret.result.message = SuccessMessage(ret.frame.file_path)

\* C5, amended: the failure of a member's nested conversion is swallowed.  An
\* archive call returns an error exactly when the archive cannot be opened, a
\* member cannot be extracted or an extracted file cannot be removed; in every
\* other case it returns the success message and the header of each file entry.
C5_NestedFailureSwallowed ==
    (Returning /\ StrategyOf(ret.frame) = "archive")
        => /\ ret.result.raised <=> ret.result.stage \in {"open", "extract", "remove"}
           /\ ret.result.raised =>
                /\ ret.result.text = <<>>
                /\ ret.result.message = ErrorMessage(ret.result.desc)
           /\ ~ret.result.raised =>
                /\ ret.result.message = SuccessMessage(ret.frame.file_path)
                /\ \A k \in 1..Len(ret.frame.members) :
                      ret.frame.members[k].is_dir
                        \/ Occurs(ZipHeader(ret.frame.members[k].filename),
                                  ret.result.text)

\* An archive call succeeds although the conversion of one member failed.
C5_Witness ==
    /\ ret.depth = 1
    /\ StrategyOf(ret.frame) = "archive"
    /\ ~ret.result.raised
    /\ \E k \in 1..Len(ret.frame.members) :
          /\ ~ret.frame.members[k].is_dir
          /\ ret.frame.members[k].data = BinFile

\* C6: for a zip whose entries can all be extracted, the text is, entry by
\* entry in stored order and skipping directories, the header followed by the
\* text of the entry's own conversion.
C6_TextIsConcatenation ==
    (/\ Returning
     /\ StrategyOf(ret.frame) = "archive"
     /\ ret.frame.pc # "start"
     /\ \A k \in 1..Len(ret.frame.members) :
           ret.frame.members[k].is_dir \/ ret.frame.members[k].fault = "none")
        => ret.result.text = TextOf(ret.frame.file_path, ZipFile(ret.frame.members))

\* C7: a path whose extension is .pdf in any letter case gets empty text and
\* the fixed message, whether or not the file exists, and the disk is as it
\* was.
C7_PdfUnsupported ==
    (Returning /\ HasExtension(ret.frame.file_path, ExtPdf))
        => /\ ret.result.text = <<>>
           /\ ret.result.message = PdfMessage
           /\ ~ret.result.raised
           /\ ret.depth = 1 => before = [p \in DOMAIN fs |-> fs[p].data]

\* The call on A.PDF, which is not on disk, has returned.
C7_Witness ==
    /\ ret.depth = 1
    /\ ret.frame.file_path = <<"a", ".", "P", "D", "F">>
    /\ DOMAIN fs = {}
    /\ ret.result.message = PdfMessage

\* C8 as stated: a name with no listed extension is read as UTF-8 text and the
\* content is returned verbatim with the success message.
C8_PlainReadVerbatim ==
    (/\ Returning
     /\ ~Listed(ret.frame.file_path)
     /\ Exists(fs, ret.frame.file_path)
     /\ DataAt(fs, ret.frame.file_path).kind = "text")
        => /\ ret.result.text = DataAt(fs, ret.frame.file_path).text
           /\ ret.result.message = SuccessMessage(ret.frame.file_path)

\* C8, amended: the strategy is decided by the extension of the final path
\* segment in any letter case.  A name with no listed extension (none at all
\* included) is read as UTF-8 text: the content is returned with "\r\n" and
\* "\r" read as "\n", so verbatim when it holds no "\r", with the success
\* message; a file that is missing or not UTF-8 gives the error result.
C8_PlainReadTranslated ==
    /\ \A k \in 1..Len(stack) : StrategyOf(stack[k]) = StrategyFor(stack[k].file_path)
    /\ (Returning /\ ~Listed(ret.frame.file_path))
        => IF Exists(fs, ret.frame.file_path)
              /\ DataAt(fs, ret.frame.file_path).kind = "text"
           THEN LET content == DataAt(fs, ret.frame.file_path).text
                IN  /\ ret.result.text = UniversalNewlines(content)
                    /\ \A k \in 1..Len(ret.result.text) : ret.result.text[k] # "\r"
                    /\ (\A k \in 1..Len(content) : content[k] # "\r")
                          => ret.result.text = content
                    /\ ret.result.message = SuccessMessage(ret.frame.file_path)
           ELSE /\ ret.result.raised
                /\ ret.result.text = <<>>

\* a.xyz holding carriage returns has been read.
C8_Witness ==
    /\ ret.depth = 1
    /\ ret.frame.file_path = <<"a", ".", "x", "y", "z">>
    /\ Exists(fs, ret.frame.file_path)
    /\ DataAt(fs, ret.frame.file_path) = TextFile(WithReturns)
    /\ ret.result.text = <<"a", "\n", "b", "\n", "c", "\n">>

\* C9: every file that was on disk when the call began is there, unchanged,
\* when it has returned.
C9_OtherFilesUntouched ==
    Idle => \A p \in DOMAIN before : p \in DOMAIN fs /\ fs[p].data = before[p]

\* C10: each active archive level has at most one extracted file on disk and
\* none when it is about to extract its next entry; every level but the
\* innermost is waiting for the conversion of the entry it extracted.
C10_OneEntryAtATime ==
    \A k \in 1..Len(stack) :
        /\ Cardinality(Owned(stack[k].uid)) <= 1
        /\ stack[k].pc \in {"start", "loop"} => Owned(stack[k].uid) = {}
        /\ k < Len(stack) =>
              /\ stack[k].pc = "wait"
              /\ stack[k + 1].file_path = stack[k].extracted_path

\* Two nested archive levels each hold their one extracted file.
C10_Witness ==
    /\ Len(stack) = 3
    /\ Cardinality(Owned(stack[1].uid)) = 1
    /\ Cardinality(Owned(stack[2].uid)) = 1
    /\ Owned(stack[1].uid) # Owned(stack[2].uid)

====
